---- MODULE Spec2Model ----
(***************************************************************************)
(* The polyphonic voice-and-effects engine of ecmasynth: the Synthesizer   *)
(* component (src/unnamed/part_001, lines 115-476), the keys that feed it  *)
(* (Keyboard.tsx), the parameter types (App.tsx, lines 272-499) and the    *)
(* preset load that replaces the model (SynthPresetsController.cs, the     *)
(* PresetManager text at lines 414-455). The earlier revision of the       *)
(* component in components/Synthesizer/Synthesizer.tsx is modelled by the  *)
(* definitions named _tsx. Around the component: the API client           *)
(* (src/unnamed/part_002), the server's SynthPresetsController and the    *)
(* PresetManager's optimistic mutations (PresetManager.tsx, 169-236).     *)
(* The client's clock is in milliseconds.                                  *)
(*                                                                         *)
(* Numbers are integers in a fixed unit per field:                         *)
(*   envelope.attack/decay/sustain/release   thousandths                   *)
(*   reverb.wet, reverb.decay                hundredths                    *)
(*   reverb.preDelay                         thousandths                   *)
(*   delay.wet, delay.delayTime, .feedback   hundredths                    *)
(*   volume.level, gainLimiter.threshold     dB                            *)
(*   oscillator.count                        tenths (20 is a count of 2)   *)
(*   oscillator.spread                       cents                         *)
(*   filter.frequency                        Hz,  filter.rolloff  dB/oct   *)
(*   gainLimiter.gain                        hundredths                    *)
(* A voice's controls use the same units, except that its delay.wet,       *)
(* delay.feedback and reverb.wet are in thousandths (the code multiplies   *)
(* the model's value by 0.7) and its oscillator.count is a whole number    *)
(* (the code rounds).                                                      *)
(***************************************************************************)
EXTENDS Integers, Sequences, FiniteSets, TLC

\* ------------------------------------------------------------------ bounds

\* Voices a PolySynth may hold (Tone.PolySynth's maxPolyphony, 32 by default).
MaxPolyphony == 2
\* Pending cleanup timers per note.
MaxTimers == 1
\* Parameter edits and preset loads in one run.
MaxEdits == 1

\* The clock advances of a run of API calls.
MaxAdvances == 2

\* The rows the server's table is given in a run.
MaxStored == 2

\* The mutations a run of the PresetManager starts.
MaxMutations == 3


\* Two of the twelve keys of constants.ts.
NOTES == {"C4", "D4"}

\* ------------------------------------------------------- the parameter model

defaultSynthParams ==
  [ envelope    |-> [attack |-> 100, decay |-> 200, sustain |-> 500, release |-> 500],
    reverb      |-> [wet |-> 30, decay |-> 150, preDelay |-> 10],
    delay       |-> [wet |-> 30, delayTime |-> 25, feedback |-> 30],
    volume      |-> [level |-> 0],
    oscillator  |-> [count |-> 20, spread |-> 15],
    filter      |-> [frequency |-> 2000, rolloff |-> -24],
    gainLimiter |-> [gain |-> 50, threshold |-> -12] ]

PARAM_RANGES ==
  [ envelope    |-> [attack  |-> [min |-> 0, max |-> 2000],
                     decay   |-> [min |-> 0, max |-> 2000],
                     sustain |-> [min |-> 0, max |-> 1000],
                     release |-> [min |-> 0, max |-> 2000]],
    reverb      |-> [wet      |-> [min |-> 0, max |-> 100],
                     decay    |-> [min |-> 1, max |-> 1000],
                     preDelay |-> [min |-> 0, max |-> 100]],
    delay       |-> [wet       |-> [min |-> 0, max |-> 100],
                     delayTime |-> [min |-> 0, max |-> 100],
                     feedback  |-> [min |-> 0, max |-> 90]],
    volume      |-> [level |-> [min |-> -60, max |-> 0]],
    oscillator  |-> [count  |-> [min |-> 10, max |-> 80],
                     spread |-> [min |-> 0, max |-> 100]],
    filter      |-> [frequency |-> [min |-> 20, max |-> 20000],
                     rolloff   |-> [min |-> -96, max |-> -12]],
    gainLimiter |-> [gain      |-> [min |-> 0, max |-> 100],
                     threshold |-> [min |-> -60, max |-> 0]] ]

Categories == DOMAIN defaultSynthParams

\* ------------------------------------------------------------ pure helpers

Min(a, b) == IF a < b THEN a ELSE b

Max(a, b) == IF a > b THEN a ELSE b

Abs(a) == IF a < 0 THEN -a ELSE a

\* Math.round of a number given in tenths: the nearest whole number, a half
\* going up (Math.round(2.5) = 3, Math.round(-2.5) = -2).
MathRound(tenths) == (tenths + 5) \div 10

\* ------------------------------------------------------------------- state

VARIABLES
  isInitialized,    \* Synthesizer state isInitialized
  currentParams,    \* App state currentParams: the initialParams prop
  params,           \* Synthesizer state params
  paramsRef,        \* paramsRef.current
  voices,           \* synthRef.current._voices: the voices, in creation order
  activeVoices,     \* PolySynth _activeVoices: <<[midi, voice, released]>>
  availableVoices,  \* PolySynth _availableVoices: ids of the idle voices
  activeNotes,      \* activeNotesRef.current: note -> parameter snapshot
  timers,           \* pending setTimeout cleanups per note
  pressedKeys,      \* Synthesizer state pressedKeys
  held,             \* per key: the keyboard's last call for it was onNoteStart
  edits,            \* parameter edits and preset loads so far
  error,            \* PresetManager state error: a message, or "null"
  onParamsChangeCalls,  \* the models onParamsChange was called with, in order
  Destination,      \* Tone.Destination, the master output all voices share
  now,              \* Date.now(), in ms
  advances,         \* the clock advances so far
  lastCreateTime,   \* api.ts: let lastCreateTime
  requestsThisMinute,  \* api.ts: let requestsThisMinute
  lastMinuteReset,  \* api.ts: let lastMinuteReset
  apiResult,        \* how the promise of the last API call settled
  SynthPresets,     \* the server's table _context.SynthPresets: <<[Id, Name]>>
  identity,         \* the Id the table gave last
  createdWith,      \* per Id given: the deletionPassword its create request held
  cache,            \* the query data of ['presets']: <<[id, name]>>
  mutations,        \* the mutations in flight, in the order they started
  refetch,          \* the fetch of ['presets'] that invalidateQueries started
  started,          \* the mutations started so far
  lastOp            \* the handler that ran last

vars == <<isInitialized, currentParams, params, paramsRef, voices, activeVoices,
          availableVoices, activeNotes, timers, pressedKeys, held, edits,
          error, onParamsChangeCalls, Destination, now, advances,
          lastCreateTime, requestsThisMinute, lastMinuteReset, apiResult,
          SynthPresets, identity, createdWith, cache, mutations, refetch,
          started, lastOp>>

engineVars == <<voices, activeVoices, availableVoices, activeNotes, timers,
                pressedKeys>>

modelVars == <<currentParams, params, paramsRef>>

uiVars == <<error, onParamsChangeCalls>>

\* The state outside the Synthesizer's handlers.
outerVars == <<Destination, now, advances, lastCreateTime, requestsThisMinute,
               lastMinuteReset, apiResult, SynthPresets, identity, createdWith,
               cache, mutations, refetch, started>>

\* The query cache and the mutations of the PresetManager.
cacheVars == <<cache, mutations, refetch, started>>

\* The state of the Synthesizer, the App and the PresetManager.
clientVars == <<isInitialized, currentParams, params, paramsRef, voices,
                activeVoices, availableVoices, activeNotes, timers, pressedKeys,
                held, edits, error, onParamsChangeCalls>>

Op(op, note, category, parameter, value) ==
  [op |-> op, note |-> note, category |-> category, parameter |-> parameter,
   value |-> value]

NoteOp(op, note) == Op(op, note, "-", "-", 0)

\* ---------------------------------------------------------------- a voice

\* const wetScale = 0.7, as a number of tenths.
wetScale == 7

\* The members of validRolloffs, in the order the code lists them.
validRolloffs == <<-12, -24, -48, -96>>

\* The cutoff inputs of the filter edits: the ends of the declared range, the
\* default, the middle, and one beyond the range.
FrequencyInputs == {20, 2000, 10000, 20000, 25000}

\* minFreq * 2^((frequency / maxFreq) * log2(maxFreq / minFreq)) with minFreq 20
\* and maxFreq 20000, that is 20 * 1000^(frequency / 20000), to the nearest Hz.
normalizedFreq(frequency) ==
  CASE frequency = 20    -> 20
    [] frequency = 2000  -> 40
    [] frequency = 10000 -> 632
    [] frequency = 20000 -> 20000
    [] frequency = 25000 -> 112468

\* new VoiceWithEffects(options): the constructor overrides the oscillator, the
\* envelope and the volume of the options it is given, and builds the effects
\* from fixed numbers and from defaultSynthParams. A new Tone.Synth sounds at
\* 440 Hz until it is triggered.
NewVoice(id) ==
  [ id         |-> id,
    frequency  |-> "A4",
    volume     |-> 5,
    envelope   |-> [attack |-> 5, decay |-> 100, sustain |-> 300, release |-> 100],
    oscillator |-> [count |-> 2, spread |-> 15],
    filter     |-> [frequency |-> 2000, rolloff |-> -24, Q |-> 1],
    gain       |-> 50,
    delay      |-> [delayTime |-> defaultSynthParams.delay.delayTime,
                    feedback  |-> defaultSynthParams.delay.feedback * wetScale,
                    wet       |-> defaultSynthParams.delay.wet * wetScale],
    reverb     |-> [decay    |-> defaultSynthParams.reverb.decay,
                    preDelay |-> defaultSynthParams.reverb.preDelay,
                    wet      |-> defaultSynthParams.reverb.wet * wetScale],
    limiter      |-> -12,
    voiceChannel |-> defaultSynthParams.volume.level,
    disposed     |-> {} ]

updateEffects(voice, p) ==
  [voice EXCEPT
     !.delay  = [delayTime |-> p.delay.delayTime,
                 feedback  |-> p.delay.feedback * wetScale,
                 wet       |-> p.delay.wet * wetScale],
     !.reverb = [decay    |-> p.reverb.decay,
                 preDelay |-> p.reverb.preDelay,
                 wet      |-> p.reverb.wet * wetScale]]

\* updateVolume without its Math.min.
updateVolumeUnclamped(voice, value) ==
  [voice EXCEPT !.voiceChannel = value]

updateVolume(voice, value) ==
  [voice EXCEPT !.voiceChannel = Min(value, 0)]

\* updateOscillator with Math.floor in the place of Math.round.
updateOscillatorTruncates(voice, p) ==
  [voice EXCEPT
     !.oscillator = [count  |-> Max(1, Min(8, p.count \div 10)),
                     spread |-> Max(0, Min(50, p.spread))]]

updateOscillator(voice, p) ==
  [voice EXCEPT
     !.oscillator = [count  |-> Max(1, Min(8, MathRound(p.count))),
                     spread |-> Max(0, Min(50, p.spread))]]

updateFilter(voice, p) ==
  [voice EXCEPT
     !.filter = [frequency |-> normalizedFreq(p.frequency),
                 rolloff   |-> p.rolloff,
                 Q         |-> 2]]

updateGainAndLimiter(voice, p) ==
  [voice EXCEPT !.gain = p.gain, !.limiter = p.threshold]

\* The six stages a voice owns, by their field names.
Stages == {"gain", "filter", "delay", "reverb", "limiter", "voiceChannel"}

\* A dispose that forgets the reverb.
disposeLeaksReverb(voice) ==
  [voice EXCEPT !.disposed = @ \cup (Stages \ {"reverb"}) \cup {"synth"}]

\* dispose(): the voice is disconnected, each of its six stages is disposed,
\* and super.dispose() disposes the Tone.Synth itself. Disposing a Tone node
\* that is already disposed leaves it disposed.
dispose(voice) ==
  [voice EXCEPT !.disposed = @ \cup Stages \cup {"synth"}]

\* The reduction with <= in the place of <: of two equally near members the
\* later one wins.
RECURSIVE reduceRolloffTiesLater(_, _, _)
reduceRolloffTiesLater(prev, i, rolloff) ==
  IF i > Len(validRolloffs) THEN prev
  ELSE reduceRolloffTiesLater(
         IF Abs(validRolloffs[i] - rolloff) <= Abs(prev - rolloff)
           THEN validRolloffs[i] ELSE prev,
         i + 1, rolloff)

\* validRolloffs.reduce((prev, curr) =>
\*   Math.abs(curr - rolloff) < Math.abs(prev - rolloff) ? curr : prev)
RECURSIVE reduceRolloff(_, _, _)
reduceRolloff(prev, i, rolloff) ==
  IF i > Len(validRolloffs) THEN prev
  ELSE reduceRolloff(
         IF Abs(validRolloffs[i] - rolloff) < Abs(prev - rolloff)
           THEN validRolloffs[i] ELSE prev,
         i + 1, rolloff)

closestRolloff(rolloff) == reduceRolloff(validRolloffs[1], 2, rolloff)

\* ------------------------------------------------------------ the PolySynth

\* The state of a PolySynth that the handlers read and write.
Synth(vs, active, available) ==
  [voices |-> vs, activeVoices |-> active, availableVoices |-> available]

VoiceIds(vs) == {vs[i].id : i \in 1..Len(vs)}

FreeId(vs) == CHOOSE i \in 1..MaxPolyphony :
                /\ i \notin VoiceIds(vs)
                /\ \A j \in 1..MaxPolyphony : j \notin VoiceIds(vs) => i <= j

IndexOfId(vs, id) == CHOOSE i \in 1..Len(vs) : vs[i].id = id

\* PolySynth._getNextAvailableVoice: the first idle voice, else a new voice while
\* fewer than maxPolyphony exist, else none (0: the note is dropped).
nextAvailableVoice(s) ==
  IF s.availableVoices # <<>> THEN Head(s.availableVoices)
  ELSE IF Len(s.voices) < MaxPolyphony THEN FreeId(s.voices)
  ELSE 0

\* PolySynth.triggerAttack(note): the next available voice is set to the note's
\* frequency, attacked, and entered in _activeVoices as not released. fresh is
\* what the voice constructor builds when a new voice is needed.
polyTriggerAttack(s, note, fresh) ==
  LET id == nextAvailableVoice(s)
      vs == IF id \in VoiceIds(s.voices) \/ id = 0 THEN s.voices
            ELSE Append(s.voices, [fresh EXCEPT !.id = id])
  IN IF id = 0 THEN s
     ELSE Synth([vs EXCEPT ![IndexOfId(vs, id)].frequency = note],
                Append(s.activeVoices,
                       [midi |-> note, voice |-> id, released |-> FALSE]),
                IF s.availableVoices # <<>> THEN Tail(s.availableVoices)
                ELSE s.availableVoices)

\* synthRef.current.triggerAttack(note) with the VoiceWithEffects of part_001.
triggerAttack(s, note) == polyTriggerAttack(s, note, NewVoice(0))

\* A triggerRelease that silences the voice at once: its entry leaves
\* _activeVoices and the voice is idle again.
triggerReleaseSilences(s, note) ==
  LET hits == {i \in 1..Len(s.activeVoices) :
                 s.activeVoices[i].midi = note /\ ~s.activeVoices[i].released}
  IN IF hits = {} THEN s
     ELSE LET i == CHOOSE k \in hits : \A j \in hits : k <= j
          IN Synth(s.voices,
                   [k \in 1..(Len(s.activeVoices) - 1) |->
                      IF k < i THEN s.activeVoices[k] ELSE s.activeVoices[k + 1]],
                   Append(s.availableVoices, s.activeVoices[i].voice))

\* PolySynth.triggerRelease(note): the first entry of _activeVoices for the note
\* that is not released is released; without one, nothing happens.
triggerRelease(s, note) ==
  LET hits == {i \in 1..Len(s.activeVoices) :
                 s.activeVoices[i].midi = note /\ ~s.activeVoices[i].released}
  IN IF hits = {} THEN s
     ELSE LET i == CHOOSE k \in hits : \A j \in hits : k <= j
          IN [s EXCEPT !.activeVoices[i].released = TRUE]

\* PolySynth.set({envelope}): every voice of _voices takes the envelope.
setEnvelope(vs, envelope) ==
  [i \in 1..Len(vs) |-> [vs[i] EXCEPT !.envelope = envelope]]

\* _voices.find(v => |v.frequency.value - freq| < 0.1): the index of the first
\* voice at the note's frequency, 0 when there is none.
findVoice(vs, note) ==
  LET hits == {i \in 1..Len(vs) : vs[i].frequency = note}
  IN IF hits = {} THEN 0 ELSE CHOOSE k \in hits : \A j \in hits : k <= j

\* ----------------------------------------------------------- the API client

PROTECTION_CONFIG ==
  [maxPresetsPerUser |-> 50, minTimeBetweenCreates |-> 2000,
   maxPresetNameLength |-> 50, maxRequestsPerMinute |-> 60]

\* An error object; statusCode 0 stands for undefined.
NoError == [name |-> "none", message |-> "", statusCode |-> 0]

ApiError(message, statusCode) ==
  [name |-> "ApiError", message |-> message, statusCode |-> statusCode]

\* What axios throws: the response's status, 0 when there was no response.
AxiosError(message, status) ==
  [name |-> "AxiosError", message |-> message, statusCode |-> status]

\* How the promise of an API call settles: the state it leaves, the error it
\* rejects with (NoError: it fulfils) and the HTTP requests it sent.
Outcome(world, thrown, sent) ==
  [world |-> world, error |-> thrown, sent |-> sent]

\* The names a preset is saved under: none, a short one, one of 51 characters.
PresetNames == {"", "lead", "a name of 51 characters"}

NameLength(name) ==
  CASE name = "" -> 0
    [] name = "lead" -> 4
    [] name = "a name of 51 characters" -> 51

\* The server's GetPresets: the table.
GetPresets(table) == table

\* The server's CreatePreset: the row is added under the next Id.
CreatePreset(world, preset) ==
  [world EXCEPT !.identity = @ + 1,
                !.SynthPresets = Append(@, [Id |-> world.identity + 1,
                                            Name |-> preset.name])]

\* The server's DeletePreset(id): 404 without the row, else the row is
\* removed and the answer is 204.
DeletePreset(world, id) ==
  LET table == world.SynthPresets
      hits == {i \in 1..Len(table) : table[i].Id = id}
  IN IF hits = {}
       THEN [world |-> world, status |-> 404]
       ELSE [world |-> [world EXCEPT !.SynthPresets =
                          SelectSeq(table, LAMBDA row : row.Id # id)],
             status |-> 204]

handleApiError(thrown) ==
  IF thrown.name = "AxiosError"
    THEN ApiError(thrown.message, thrown.statusCode)
    ELSE ApiError("An unexpected error occurred", 0)

\* checkRateLimits with > in the place of >=.
checkRateLimitsOffByOne(world, t) ==
  LET w == IF t - world.lastMinuteReset >= 60000
             THEN [world EXCEPT !.requestsThisMinute = 0, !.lastMinuteReset = t]
             ELSE world
  IN IF w.requestsThisMinute > PROTECTION_CONFIG.maxRequestsPerMinute
       THEN [world |-> w,
             thrown |-> ApiError("Rate limit exceeded. Please try again later.",
                                 429)]
       ELSE [world |-> [w EXCEPT !.requestsThisMinute = @ + 1],
             thrown |-> NoError]

\* checkRateLimits() at time t: the state it leaves and what it throws.
checkRateLimits(world, t) ==
  LET w == IF t - world.lastMinuteReset >= 60000
             THEN [world EXCEPT !.requestsThisMinute = 0, !.lastMinuteReset = t]
             ELSE world
  IN IF w.requestsThisMinute >= PROTECTION_CONFIG.maxRequestsPerMinute
       THEN [world |-> w,
             thrown |-> ApiError("Rate limit exceeded. Please try again later.",
                                 429)]
       ELSE [world |-> [w EXCEPT !.requestsThisMinute = @ + 1],
             thrown |-> NoError]

\* validatePresetData(preset): what it throws.
validatePresetData(preset) ==
  IF NameLength(preset.name) = 0
    THEN ApiError("Invalid preset name", 400)
  ELSE IF NameLength(preset.name) > PROTECTION_CONFIG.maxPresetNameLength
    THEN ApiError("Preset name must be 50 characters or less", 400)
  ELSE NoError

\* api.getPresets() at time t; net tells whether its request is answered.
\* Whatever the try block throws goes through handleApiError.
getPresets(world, t, net) ==
  LET c == checkRateLimits(world, t)
  IN IF c.thrown # NoError
       THEN Outcome(c.world, handleApiError(c.thrown), 0)
     ELSE IF net = "fail"
       THEN Outcome(c.world, handleApiError(AxiosError("Network Error", 0)), 1)
     ELSE IF Len(GetPresets(c.world.SynthPresets))
               >= PROTECTION_CONFIG.maxPresetsPerUser
       THEN Outcome(c.world,
                    handleApiError(
                      ApiError("Maximum number of presets (50) reached", 403)),
                    1)
     ELSE Outcome(c.world, NoError, 1)

\* api.createPreset(preset) at time t; net1 and net2 tell whether its GET and
\* its POST are answered. Its call of api.getPresets runs checkRateLimits
\* before the first await.
createPreset(world, t, preset, net1, net2) ==
  LET c == checkRateLimits(world, t)
      w == [c.world EXCEPT !.lastCreateTime = t]
      g == getPresets(w, t, net1)
  IN IF c.thrown # NoError
       THEN Outcome(c.world, handleApiError(c.thrown), 0)
     ELSE IF t - c.world.lastCreateTime < PROTECTION_CONFIG.minTimeBetweenCreates
       THEN Outcome(c.world,
                    handleApiError(
                      ApiError("Please wait before creating another preset",
                               429)),
                    0)
     ELSE IF validatePresetData(preset) # NoError
       THEN Outcome(w, handleApiError(validatePresetData(preset)), 0)
     ELSE IF g.error # NoError
       THEN Outcome(g.world, handleApiError(g.error), g.sent)
     ELSE IF net2 = "fail"
       THEN Outcome(g.world, handleApiError(AxiosError("Network Error", 0)),
                    g.sent + 1)
     ELSE Outcome(CreatePreset(g.world, preset), NoError, g.sent + 1)

\* api.deletePreset(id, password) at time t. axios throws on a status that is
\* not 2xx; the catch turns a 403 into 'Incorrect deletion password'.
deletePreset(world, t, id, password, net) ==
  LET c == checkRateLimits(world, t)
      d == DeletePreset(c.world, id)
  IN IF c.thrown # NoError
       THEN Outcome(c.world, handleApiError(c.thrown), 0)
     ELSE IF net = "fail"
       THEN Outcome(c.world, handleApiError(AxiosError("Network Error", 0)), 1)
     ELSE IF d.status = 403
       THEN Outcome(d.world, ApiError("Incorrect deletion password", 403), 1)
     ELSE IF d.status # 204
       THEN Outcome(d.world,
                    handleApiError(
                      AxiosError("Request failed with status code 404",
                                 d.status)),
                    1)
     ELSE Outcome(d.world, NoError, 1)

\* The state the API calls read and write.
World ==
  [requestsThisMinute |-> requestsThisMinute,
   lastMinuteReset |-> lastMinuteReset,
   lastCreateTime |-> lastCreateTime,
   SynthPresets |-> SynthPresets,
   identity |-> identity]

\* The API call op has settled as o. A create that reached the table is
\* remembered with the deletionPassword it held, which op.parameter names.
Settle(op, o) ==
  /\ requestsThisMinute' = o.world.requestsThisMinute
  /\ lastMinuteReset' = o.world.lastMinuteReset
  /\ lastCreateTime' = o.world.lastCreateTime
  /\ SynthPresets' = o.world.SynthPresets
  /\ identity' = o.world.identity
  /\ createdWith' = IF o.world.identity = identity THEN createdWith
                    ELSE Append(createdWith, op.parameter)
  /\ apiResult' = Outcome(<<>>, o.error, o.sent)
  /\ lastOp' = op
  /\ UNCHANGED <<clientVars, Destination, now, advances, cacheVars>>

\* Time passes.
Advance(d) ==
  /\ advances < MaxAdvances
  /\ advances' = advances + 1
  /\ now' = now + d
  /\ lastOp' = Op("advance", "-", "-", "-", d)
  /\ UNCHANGED <<clientVars, Destination, lastCreateTime, requestsThisMinute,
                 lastMinuteReset, apiResult, SynthPresets, identity,
                 createdWith, cacheVars>>

\* ------------------------------------------- the PresetManager's mutations

\* No fetch of ['presets'] is in flight.
Idle == [status |-> "idle", data |-> <<>>, thrown |-> NoError]

\* The presets of a response: the rows of the table as JSON.
ToPresets(table) ==
  [i \in 1..Len(table) |-> [id |-> table[i].Id, name |-> table[i].Name]]

\* A mutation in flight: its variables, the context its onMutate returned and
\* what its mutationFn will reject with (NoError: it will fulfil).
Mutation(kind, id, previousPresets, thrown) ==
  [kind |-> kind, id |-> id, previousPresets |-> previousPresets,
   thrown |-> thrown]

\* onMutate of createMutation at time t: the list as it is, and the list with
\* tempPreset, whose id is Date.now().
createOnMutate(data, newPreset, t) ==
  [previousPresets |-> data,
   data |-> Append(data, [id |-> t, name |-> newPreset.name])]

\* onMutate of deleteMutation.
deleteOnMutate(data, id) ==
  [previousPresets |-> data,
   data |-> SelectSeq(data, LAMBDA preset : preset.id # id)]

\* onError of both mutations: setQueryData(['presets'], context.previousPresets).
onError(data, m) == m.previousPresets

\* invalidateQueries({queryKey: ['presets']}): the query is fetched again with
\* api.getPresets, and a fetch in flight is dropped for the new one.
invalidateQueries(world, t, net) ==
  LET g == getPresets(world, t, net)
  IN [world |-> g.world,
      refetch |-> [status |-> "pending",
                   data |-> IF g.error = NoError
                              THEN ToPresets(GetPresets(g.world.SynthPresets))
                              ELSE <<>>,
                   thrown |-> g.error]]

\* The API state and the table become those of world; a create that reached
\* the table is remembered with its deletionPassword.
Store(world, password) ==
  /\ requestsThisMinute' = world.requestsThisMinute
  /\ lastMinuteReset' = world.lastMinuteReset
  /\ lastCreateTime' = world.lastCreateTime
  /\ SynthPresets' = world.SynthPresets
  /\ identity' = world.identity
  /\ createdWith' = IF world.identity = identity THEN createdWith
                    ELSE Append(createdWith, password)

\* What a mutation's callbacks leave when its mutationFn has settled as
\* thrown: onError or onSuccess, then onSettled, whose fetch is answered or not
\* as net tells.
Settled(m, world, net) ==
  LET inv == invalidateQueries(world, now, net)
  IN /\ cache' = IF m.thrown # NoError THEN onError(cache, m) ELSE cache
     /\ error' = IF m.kind = "delete" THEN error
                 ELSE IF m.thrown # NoError THEN "Failed to save preset"
                 ELSE "null"
     /\ refetch' = inv.refetch
     /\ apiResult' = Outcome(<<>>, m.thrown, 0)
     /\ lastOp' = Op("settle", "-", m.kind,
                     IF m.thrown # NoError THEN "rejected" ELSE "fulfilled",
                     m.id)

\* createMutation.mutate(newPreset), from handleSavePreset: onMutate, then
\* api.createPreset. A call that is refused before it sends a request rejects
\* at once, and the callbacks run before anything else does. The Save button
\* is disabled while a create is pending and handleSavePreset wants a name;
\* the clock has moved since any temporary preset of the list was made.
createMutate(newPreset, net1, net2, net3) ==
  LET o == createPreset(World, now, newPreset, net1, net2)
      c == createOnMutate(cache, newPreset, now)
      m == Mutation("create", now, c.previousPresets, o.error)
  IN /\ \A i \in 1..Len(mutations) : mutations[i].kind # "create"
     /\ \A i \in 1..Len(cache) : cache[i].id # now
     /\ NameLength(newPreset.name) > 0
     /\ started < MaxMutations
     /\ identity < MaxStored
     /\ started' = started + 1
     /\ IF o.sent = 0
          THEN /\ Settled(m, o.world, net3)
               /\ Store(invalidateQueries(o.world, now, net3).world,
                        newPreset.deletionPassword)
               /\ UNCHANGED mutations
          ELSE /\ cache' = c.data
               /\ mutations' = Append(mutations, m)
               /\ refetch' = Idle
               /\ Store(o.world, newPreset.deletionPassword)
               /\ apiResult' = apiResult
               /\ error' = "null"
               /\ lastOp' = Op("mutate", "-", "create", "-", now)
     /\ UNCHANGED <<isInitialized, modelVars, engineVars, held, edits,
                    onParamsChangeCalls, Destination, now, advances>>

\* deleteMutation.mutateAsync({id, password}), from handleDeleteConfirm, for a
\* preset of the list; the Delete buttons are disabled while a delete is
\* pending.
deleteMutate(id, password, net, net3) ==
  LET o == deletePreset(World, now, id, password, net)
      c == deleteOnMutate(cache, id)
      m == Mutation("delete", id, c.previousPresets, o.error)
  IN /\ \A i \in 1..Len(mutations) : mutations[i].kind # "delete"
     /\ \E i \in 1..Len(cache) : cache[i].id = id
     /\ started < MaxMutations
     /\ started' = started + 1
     /\ IF o.sent = 0
          THEN /\ Settled(m, o.world, net3)
               /\ Store(invalidateQueries(o.world, now, net3).world, password)
               /\ UNCHANGED mutations
          ELSE /\ cache' = c.data
               /\ mutations' = Append(mutations, m)
               /\ refetch' = Idle
               /\ Store(o.world, password)
               /\ UNCHANGED <<apiResult, error>>
               /\ lastOp' = Op("mutate", "-", "delete", "-", id)
     /\ UNCHANGED <<isInitialized, modelVars, engineVars, held, edits,
                    onParamsChangeCalls, Destination, now, advances>>

\* The answer to the request of the k-th mutation in flight arrives.
settleMutation(k, net3) ==
  /\ k \in 1..Len(mutations)
  /\ Settled(mutations[k], World, net3)
  /\ Store(invalidateQueries(World, now, net3).world, "")
  /\ mutations' = [i \in 1..(Len(mutations) - 1) |->
                     IF i < k THEN mutations[i] ELSE mutations[i + 1]]
  /\ UNCHANGED <<isInitialized, modelVars, engineVars, held, edits,
                 onParamsChangeCalls, Destination, now, advances, started>>

\* The fetch that invalidateQueries started settles: its data become the list.
refetchSettles ==
  /\ refetch.status = "pending"
  /\ cache' = IF refetch.thrown = NoError THEN refetch.data ELSE cache
  /\ refetch' = [refetch EXCEPT
                   !.status = IF refetch.thrown = NoError THEN "success"
                              ELSE "error"]
  /\ lastOp' = Op("refetch", "-", "-", "-", 0)
  /\ UNCHANGED <<clientVars, Destination, now, advances, lastCreateTime,
                 requestsThisMinute, lastMinuteReset, apiResult, SynthPresets,
                 identity, createdWith, mutations, started>>

\* ------------------------------------------------------------- the handlers

\* The state once the component is mounted: the effect at lines 302-321 has created
\* the PolySynth and set isInitialized. Its set({envelope, volume}) reaches no
\* voice: none exists yet, and the VoiceWithEffects constructor overrides both
\* when one is created.
Init ==
  /\ isInitialized = TRUE
  /\ currentParams = defaultSynthParams
  /\ params = defaultSynthParams
  /\ paramsRef = defaultSynthParams
  /\ voices = <<>>
  /\ activeVoices = <<>>
  /\ availableVoices = <<>>
  /\ activeNotes = <<>>
  /\ timers = [n \in NOTES |-> 0]
  /\ pressedKeys = {}
  /\ held = [n \in NOTES |-> FALSE]
  /\ edits = 0
  /\ error = "null"
  /\ onParamsChangeCalls = <<>>
  /\ Destination = [volume |-> -6, disposed |-> FALSE]
  /\ now = 100000
  /\ advances = 0
  /\ lastCreateTime = 0
  /\ requestsThisMinute = 0
  /\ lastMinuteReset = now
  /\ apiResult = Outcome(<<>>, NoError, 0)
  /\ SynthPresets = <<>>
  /\ identity = 0
  /\ createdWith = <<>>
  /\ cache = <<>>
  /\ mutations = <<>>
  /\ refetch = Idle
  /\ started = 0
  /\ lastOp = NoteOp("none", "-")

\* The effect on [initialParams, isInitialized], applied to the voices vs:
\* updateEffects and updateVolume on every voice, then set({envelope}).
initialParamsEffect(vs, initialParams) ==
  IF isInitialized
    THEN setEnvelope(
           [i \in 1..Len(vs) |->
              updateVolume(updateEffects(vs[i], initialParams),
                           initialParams.volume.level)],
           initialParams.envelope)
    ELSE vs

handleNoteStart(note) ==
  IF ~isInitialized THEN UNCHANGED engineVars
  ELSE
    LET s == triggerAttack(Synth(voices, activeVoices, availableVoices), note)
        i == findVoice(s.voices, note)
    IN /\ activeNotes' = [n \in DOMAIN activeNotes \cup {note} |->
                            IF n = note THEN paramsRef ELSE activeNotes[n]]
       /\ voices' = IF i = 0 THEN s.voices
                    ELSE [s.voices EXCEPT ![i] = updateEffects(@, paramsRef)]
       /\ activeVoices' = s.activeVoices
       /\ availableVoices' = s.availableVoices
       /\ pressedKeys' = pressedKeys \cup {note}
       /\ UNCHANGED timers

\* A handleNoteEnd that leaves the key shown as pressed.
handleNoteEndKeepsKey(note) ==
  IF ~isInitialized THEN UNCHANGED engineVars
  ELSE
    LET s == triggerRelease(Synth(voices, activeVoices, availableVoices), note)
    IN /\ timers[note] < MaxTimers
       /\ activeVoices' = s.activeVoices
       /\ timers' = [timers EXCEPT ![note] = @ + 1]
       /\ UNCHANGED <<voices, availableVoices, activeNotes, pressedKeys>>

handleNoteEnd(note) ==
  IF ~isInitialized THEN UNCHANGED engineVars
  ELSE
    LET s == triggerRelease(Synth(voices, activeVoices, availableVoices), note)
    IN /\ timers[note] < MaxTimers
       /\ activeVoices' = s.activeVoices
       /\ timers' = [timers EXCEPT ![note] = @ + 1]
       /\ pressedKeys' = pressedKeys \ {note}
       /\ UNCHANGED <<voices, availableVoices, activeNotes>>

\* A timer callback that fires and deletes nothing.
cleanupTimerKeeps(note) ==
  /\ timers[note] > 0
  /\ timers' = [timers EXCEPT ![note] = @ - 1]
  /\ lastOp' = NoteOp("cleanup", note)
  /\ UNCHANGED <<isInitialized, outerVars, modelVars, voices, activeVoices, availableVoices,
                 activeNotes, pressedKeys, held, edits, uiVars>>

\* The setTimeout callback of handleNoteEnd, 100 ms later.
cleanupTimer(note) ==
  /\ timers[note] > 0
  /\ timers' = [timers EXCEPT ![note] = @ - 1]
  /\ activeNotes' = [n \in DOMAIN activeNotes \ {note} |-> activeNotes[n]]
  /\ lastOp' = NoteOp("cleanup", note)
  /\ UNCHANGED <<isInitialized, outerVars, modelVars, voices, activeVoices, availableVoices,
                 pressedKeys, held, edits, uiVars>>

\* A released voice falls silent: the PolySynth's onsilence callback
\* (_makeVoiceAvailable) appends it to _availableVoices and removes its entry
\* from _activeVoices.
voiceSilent(i) ==
  /\ i \in 1..Len(activeVoices)
  /\ activeVoices[i].released
  /\ availableVoices' = Append(availableVoices, activeVoices[i].voice)
  /\ activeVoices' = [k \in 1..(Len(activeVoices) - 1) |->
                        IF k < i THEN activeVoices[k] ELSE activeVoices[k + 1]]
  /\ lastOp' = NoteOp("silence", activeVoices[i].midi)
  /\ UNCHANGED <<isInitialized, outerVars, modelVars, voices, activeNotes, timers,
                 pressedKeys, held, edits, uiVars>>

\* PolySynth._collectGarbage, on its interval: while more voices exist than were
\* lately active plus one, the first idle voice is removed and disposed.
collectGarbage ==
  /\ availableVoices # <<>>
  /\ Len(voices) > Len(activeVoices) + 1
  /\ LET id == Head(availableVoices)
         i == IndexOfId(voices, id)
     IN voices' = [k \in 1..(Len(voices) - 1) |->
                     IF k < i THEN voices[k] ELSE voices[k + 1]]
  /\ availableVoices' = Tail(availableVoices)
  /\ lastOp' = NoteOp("gc", "-")
  /\ UNCHANGED <<isInitialized, outerVars, modelVars, activeVoices, activeNotes, timers,
                 pressedKeys, held, edits, uiVars>>

\* A call of dispose() on one voice of the pool.
disposeVoice(i) ==
  /\ i \in 1..Len(voices)
  /\ voices' = [voices EXCEPT ![i] = dispose(@)]
  /\ lastOp' = Op("dispose", "-", "-", "-", i)
  /\ UNCHANGED <<isInitialized, outerVars, modelVars, activeVoices,
                 availableVoices, activeNotes, timers, pressedKeys, held, edits,
                 uiVars>>

\* The cleanup of the effect that created the PolySynth, at unmount:
\* PolySynth.dispose disposes every voice of _voices and empties _activeVoices
\* and _availableVoices; then setIsInitialized(false).
unmount ==
  /\ isInitialized
  /\ voices' = [i \in 1..Len(voices) |-> dispose(voices[i])]
  /\ activeVoices' = <<>>
  /\ availableVoices' = <<>>
  /\ isInitialized' = FALSE
  /\ lastOp' = NoteOp("unmount", "-")
  /\ UNCHANGED <<outerVars, modelVars, activeNotes, timers, pressedKeys, held,
                 edits, uiVars>>

\* ---------------------------------------------------------------- the keys

noteOn(note) ==
  /\ handleNoteStart(note)
  /\ held' = [held EXCEPT ![note] = TRUE]
  /\ lastOp' = NoteOp("noteOn", note)
  /\ UNCHANGED <<isInitialized, outerVars, modelVars, edits, uiVars>>

noteOff(note) ==
  /\ handleNoteEnd(note)
  /\ held' = [held EXCEPT ![note] = FALSE]
  /\ lastOp' = NoteOp("noteOff", note)
  /\ UNCHANGED <<isInitialized, outerVars, modelVars, edits, uiVars>>

handleMouseDown(note) == noteOn(note)

\* onTouchStart={handleMouseDown}
onTouchStart(note) == handleMouseDown(note)

handleMouseUp(note) == noteOff(note)

handleMouseLeave(note) == noteOff(note)

\* onTouchEnd={handleMouseUp}
onTouchEnd(note) == handleMouseUp(note)

\* ------------------------------------------------------ the parameter router

\* A router that builds a fresh chain for every voice before its branch runs.
routeParamsRebuilds(vs, category, value, newParams) ==
  [i \in 1..Len(vs) |->
     CASE category = "envelope" ->
            [NewVoice(vs[i].id) EXCEPT !.envelope = newParams.envelope]
       [] category = "volume" -> updateVolume(NewVoice(vs[i].id), value)
       [] category = "oscillator" ->
            updateOscillator(NewVoice(vs[i].id), newParams.oscillator)
       [] category = "filter" ->
            updateFilter(NewVoice(vs[i].id),
                         [frequency |-> newParams.filter.frequency,
                          rolloff   |-> closestRolloff(newParams.filter.rolloff)])
       [] category = "gainLimiter" ->
            updateGainAndLimiter(NewVoice(vs[i].id), newParams.gainLimiter)
       [] OTHER -> NewVoice(vs[i].id)]

\* The voices after the category branches of updateParams.
routeParams(vs, category, value, newParams) ==
  [i \in 1..Len(vs) |->
     CASE category = "envelope"    -> [vs[i] EXCEPT !.envelope = newParams.envelope]
       [] category = "volume"      -> updateVolume(vs[i], value)
       [] category = "oscillator"  -> updateOscillator(vs[i], newParams.oscillator)
       [] category = "filter"      ->
            updateFilter(vs[i],
                         [frequency |-> newParams.filter.frequency,
                          rolloff   |-> closestRolloff(newParams.filter.rolloff)])
       [] category = "gainLimiter" -> updateGainAndLimiter(vs[i], newParams.gainLimiter)
       [] OTHER -> vs[i]]

\* updateParams building its model from the model of the first render, as a
\* callback that closed over params would, and not from the updater's prev.
updateParamsStale(category, parameter, value) ==
  LET newParams == [defaultSynthParams EXCEPT ![category][parameter] = value]
  IN /\ currentParams' = newParams
     /\ params' = newParams
     /\ paramsRef' = newParams
     /\ voices' = initialParamsEffect(
                    routeParams(voices, category, value, newParams), newParams)
     /\ onParamsChangeCalls' = Append(onParamsChangeCalls, newParams)
     /\ lastOp' = Op("updateParams", "-", category, parameter, value)
     /\ UNCHANGED <<isInitialized, outerVars, activeVoices, availableVoices, activeNotes,
                    timers, pressedKeys, held, error>>

\* updateParams(category, parameter, value). Its onParamsChange is App's
\* handleParamsChange, which replaces currentParams, the initialParams prop of the
\* Synthesizer; the effect on initialParams then runs in the same flush (React 18,
\* a discrete event), before any other handler.
updateParams(category, parameter, value) ==
  LET newParams == [params EXCEPT ![category][parameter] = value]
  IN /\ currentParams' = newParams
     /\ params' = newParams
     /\ paramsRef' = newParams
     /\ voices' = initialParamsEffect(
                    routeParams(voices, category, value, newParams), newParams)
     /\ onParamsChangeCalls' = Append(onParamsChangeCalls, newParams)
     /\ lastOp' = Op("updateParams", "-", category, parameter, value)
     /\ UNCHANGED <<isInitialized, outerVars, activeVoices, availableVoices, activeNotes,
                    timers, pressedKeys, held, error>>

\* A serialized sub-object of a preset record: the text JSON.stringify makes of
\* a value, or a text that JSON.parse rejects.
Serialized(value) == [valid |-> TRUE, value |-> value]

Malformed == [valid |-> FALSE, value |-> <<>>]

\* JSON.parse(text) returns its value; it throws when Parses(text) is false.
Parses(text) == text.valid

JSONparse(text) == text.value

\* Every serialized sub-object of the record is validly encoded.
WellFormed(preset) == \A c \in Categories : Parses(preset[c])

PresetOp(preset) ==
  Op("loadPreset", "-", "-",
     IF WellFormed(preset) THEN "wellformed" ELSE "malformed", 0)

\* presetData of handleSavePreset: each category of currentParams through
\* JSON.stringify.
handleSavePreset(p) == [c \in Categories |-> Serialized(p[c])]

\* params of handleLoadPreset: each sub-object of the record through JSON.parse.
loadedParams(preset) == [c \in Categories |-> JSONparse(preset[c])]

\* handleLoadPreset(preset) of the PresetManager: the seven sub-objects are
\* parsed inside one try; onLoadPreset is App's handleLoadPreset, which
\* replaces currentParams, and the effect on initialParams follows. A
\* JSON.parse that throws leaves through the catch, before onLoadPreset.
handleLoadPreset(preset) ==
  /\ IF \A c \in {"envelope", "reverb", "delay", "volume", "oscillator",
                   "filter", "gainLimiter"} : Parses(preset[c])
       THEN LET loaded == loadedParams(preset)
            IN /\ currentParams' = loaded
               /\ params' = loaded
               /\ paramsRef' = loaded
               /\ voices' = initialParamsEffect(voices, loaded)
               /\ error' = "null"
       ELSE /\ error' = "Failed to load preset: Invalid preset data"
            /\ UNCHANGED <<modelVars, voices>>
  /\ lastOp' = PresetOp(preset)
  /\ UNCHANGED <<isInitialized, outerVars, activeVoices, availableVoices, activeNotes,
                 timers, pressedKeys, held, onParamsChangeCalls>>

\* ------------------------------------------------------------------ inputs

\* The edits of a run: <<category, parameter, value>>, in and out of range.
EditInputs ==
  { <<"envelope", "release", 2000>>,
    <<"volume", "level", 10>>,
    <<"volume", "level", -20>>,
    <<"oscillator", "count", 120>>,
    <<"oscillator", "spread", 75>>,
    <<"filter", "rolloff", -36>>,
    <<"filter", "frequency", 10000>>,
    <<"gainLimiter", "gain", 80>>,
    <<"delay", "wet", 80>>,
    <<"reverb", "decay", 400>> }

\* The models whose presets a run may load.
Presets ==
  { [defaultSynthParams EXCEPT !.volume.level = 10, !.delay.feedback = 60,
                               !.envelope.attack = 300] }

\* The preset records of a run: the record saved from each model, and that
\* record with one sub-object replaced by a text that does not parse.
PresetRecords ==
  LET saved(m) == [c \in Categories |-> Serialized(m[c])]
  IN {saved(m) : m \in Presets}
       \cup {[saved(m) EXCEPT ![c] = Malformed] : m \in Presets, c \in Categories}

\* ------------------------------------------------------------- specification

\* An edit of the run, within the run's budget of edits.
editParams ==
  \E e \in EditInputs :
    /\ edits < MaxEdits
    /\ edits' = edits + 1
    /\ updateParams(e[1], e[2], e[3])

loadPreset ==
  \E p \in PresetRecords :
    /\ edits < MaxEdits
    /\ edits' = edits + 1
    /\ handleLoadPreset(p)

\* The engine under its keys, timers, voices, edits and preset loads.
Next ==
  \/ \E n \in NOTES : handleMouseDown(n)
  \/ \E n \in NOTES : onTouchStart(n)
  \/ \E n \in NOTES : handleMouseUp(n)
  \/ \E n \in NOTES : handleMouseLeave(n)
  \/ \E n \in NOTES : onTouchEnd(n)
  \/ \E n \in NOTES : cleanupTimer(n)
  \/ \E i \in 1..MaxPolyphony : voiceSilent(i)
  \/ collectGarbage
  \/ editParams
  \/ loadPreset

Spec == Init /\ [][Next]_vars

\* The parameter router with one key: the voices of one note under the edits and
\* the preset loads.
NextRouter ==
  \/ handleMouseDown("C4")
  \/ handleMouseUp("C4")
  \/ cleanupTimer("C4")
  \/ \E i \in 1..MaxPolyphony : voiceSilent(i)
  \/ editParams
  \/ loadPreset

SpecRouter == Init /\ [][NextRouter]_vars

\* The writes of a run of edits: two values for one field, two fields of one
\* category, and a field of another category.
WriteInputs ==
  { <<"volume", "level", -20>>,
    <<"volume", "level", -3>>,
    <<"delay", "wet", 10>>,
    <<"delay", "feedback", 10>>,
    <<"envelope", "release", 2000>> }

\* An edit of a run of edits, one more than the budget of edits so that a write
\* follows a write.
editWrites ==
  \E e \in WriteInputs :
    /\ edits < MaxEdits + 1
    /\ edits' = edits + 1
    /\ updateParams(e[1], e[2], e[3])

\* The stored model under runs of edits, with one key.
NextWrites ==
  \/ handleMouseDown("C4")
  \/ handleMouseUp("C4")
  \/ cleanupTimer("C4")
  \/ \E i \in 1..MaxPolyphony : voiceSilent(i)
  \/ editWrites

SpecWrites == Init /\ [][NextWrites]_vars

\* The voices under their keys, calls of dispose() and the unmount.
NextDispose ==
  \/ \E n \in NOTES : handleMouseDown(n)
  \/ \E n \in NOTES : handleMouseUp(n)
  \/ \E i \in 1..MaxPolyphony : voiceSilent(i)
  \/ \E i \in 1..MaxPolyphony : disposeVoice(i)
  \/ unmount

SpecDispose == Init /\ [][NextDispose]_vars

\* The presets a run saves, and the passwords it deletes with.
PresetInputs ==
  {[name |-> n, deletionPassword |-> "secret"] : n \in PresetNames}

PasswordInputs == {"secret", "guess", ""}

callGetPresets ==
  \E net \in {"ok", "fail"} :
    Settle(Op("getPresets", "-", "-", "-", 0), getPresets(World, now, net))

callCreatePreset ==
  \E preset \in PresetInputs, net1 \in {"ok", "fail"}, net2 \in {"ok", "fail"} :
    /\ identity < MaxStored
    /\ Settle(Op("createPreset", "-", "-", preset.deletionPassword, 0),
              createPreset(World, now, preset, net1, net2))

callDeletePreset ==
  \E id \in 1..MaxStored, password \in PasswordInputs, net \in {"ok", "fail"} :
    Settle(Op("deletePreset", "-", "-", password, id),
           deletePreset(World, now, id, password, net))

\* The API client and the server under calls and the clock.
NextApi ==
  \/ callGetPresets
  \/ callCreatePreset
  \/ callDeletePreset
  \/ \E d \in {2000, 60000} : Advance(d)

SpecApi == Init /\ [][NextApi]_vars

\* The ids of the presets the list shows.
StoredAndTempIds == {cache[i].id : i \in 1..Len(cache)}

\* The PresetManager's list under its mutations, their answers and the clock.
NextMutations ==
  \/ \E preset \in PresetInputs, net1, net2, net3 \in {"ok", "fail"} :
       createMutate(preset, net1, net2, net3)
  \/ \E id \in StoredAndTempIds, net, net3 \in {"ok", "fail"} :
       deleteMutate(id, "secret", net, net3)
  \/ \E k \in 1..2, net3 \in {"ok", "fail"} : settleMutation(k, net3)
  \/ refetchSettles
  \/ Advance(2000)

SpecMutations == Init /\ [][NextMutations]_vars

\* The filter branch of updateParams over rolloff inputs on and between the
\* legal values, with the voices of one key.
RolloffInputs ==
  {-110, -100, -96, -90, -84, -73, -72, -71, -60, -48, -40, -37, -36, -35, -30,
   -24, -20, -19, -18, -17, -12, -6, 0}

editFilter ==
  /\ edits < MaxEdits
  /\ edits' = edits + 1
  /\ \/ \E v \in RolloffInputs : updateParams("filter", "rolloff", v)
     \/ \E f \in FrequencyInputs : updateParams("filter", "frequency", f)

NextFilter ==
  \/ handleMouseDown("C4")
  \/ editFilter

SpecFilter == Init /\ [][NextFilter]_vars

\* updateOscillator over counts (in tenths) on both sides of every rounding and
\* clamping edge, and over spreads, with the voices of one key.
CountInputs ==
  {-10, 0, 4, 5, 6, 10, 14, 15, 16, 20, 24, 25, 26, 74, 75, 76, 80, 84, 85, 86,
   90, 120, 130}

SpreadInputs == {-5, 0, 15, 50, 51, 75, 100, 120}

editOscillator ==
  /\ edits < MaxEdits
  /\ edits' = edits + 1
  /\ \/ \E c \in CountInputs : updateParams("oscillator", "count", c)
     \/ \E sp \in SpreadInputs : updateParams("oscillator", "spread", sp)

NextOscillator ==
  \/ handleMouseDown("C4")
  \/ editOscillator

SpecOscillator == Init /\ [][NextOscillator]_vars

\* The update methods of a voice under values inside and outside the declared
\* ranges, with the voices of one key.
UpdateInputs ==
  { <<"volume", "level", -100>>,       <<"volume", "level", -30>>,
    <<"volume", "level", 10>>,
    <<"oscillator", "count", 120>>,    <<"oscillator", "count", 0>>,
    <<"oscillator", "spread", -5>>,    <<"oscillator", "spread", 75>>,
    <<"filter", "frequency", 25000>>,  <<"filter", "frequency", 10000>>,
    <<"filter", "rolloff", -110>>,     <<"filter", "rolloff", 0>>,
    <<"gainLimiter", "gain", 150>>,    <<"gainLimiter", "gain", 80>>,
    <<"gainLimiter", "threshold", 10>>, <<"gainLimiter", "threshold", -70>>,
    <<"delay", "wet", 200>>,           <<"delay", "feedback", 60>>,
    <<"delay", "delayTime", 150>>,
    <<"reverb", "wet", 200>>,          <<"reverb", "decay", 0>>,
    <<"reverb", "preDelay", 500>> }

editUpdates ==
  \E e \in UpdateInputs :
    /\ edits < MaxEdits
    /\ edits' = edits + 1
    /\ updateParams(e[1], e[2], e[3])

NextUpdates ==
  \/ handleMouseDown("C4")
  \/ editUpdates

SpecUpdates == Init /\ [][NextUpdates]_vars

\* The voices under the keys alone: presses and releases of every key, the
\* cleanup timers, voices falling silent and the PolySynth's garbage collection.
NextVoices ==
  \/ \E n \in NOTES : handleMouseDown(n)
  \/ \E n \in NOTES : handleMouseUp(n)
  \/ \E n \in NOTES : cleanupTimer(n)
  \/ \E i \in 1..MaxPolyphony : voiceSilent(i)
  \/ collectGarbage

SpecVoices == Init /\ [][NextVoices]_vars

\* The records of the notes under the keys and the timers. A timer that
\* setTimeout has armed fires: the browser runs its callback once the 100 ms
\* have passed.
NextCleanup ==
  \/ \E n \in NOTES : handleMouseDown(n)
  \/ \E n \in NOTES : handleMouseUp(n)
  \/ \E n \in NOTES : cleanupTimer(n)
  \/ \E i \in 1..MaxPolyphony : voiceSilent(i)

SpecCleanup ==
  /\ Init
  /\ [][NextCleanup]_vars
  /\ \A n \in NOTES : WF_vars(cleanupTimer(n))

\* ------------------------------------------- the revision of Synthesizer.tsx
\* components/Synthesizer/Synthesizer.tsx holds a revision of the component whose
\* Controls edit the envelope, the reverb, the delay and the volume; the other
\* categories of the model are carried along and never read.

\* Its VoiceWithEffects constructor leaves the envelope of the options alone:
\* a new voice has the envelope the PolySynth was last set to.
NewVoice_tsx(id, options) ==
  [ id         |-> id,
    frequency  |-> "A4",
    volume     |-> 5,
    envelope   |-> options.envelope,
    oscillator |-> [count |-> 2, spread |-> 15],
    filter     |-> [frequency |-> 2000, rolloff |-> -24, Q |-> 1],
    gain       |-> 50,
    delay      |-> [delayTime |-> defaultSynthParams.delay.delayTime,
                    feedback  |-> defaultSynthParams.delay.feedback * wetScale,
                    wet       |-> defaultSynthParams.delay.wet * wetScale],
    reverb     |-> [decay    |-> defaultSynthParams.reverb.decay,
                    preDelay |-> defaultSynthParams.reverb.preDelay,
                    wet      |-> defaultSynthParams.reverb.wet * wetScale],
    limiter      |-> -12,
    voiceChannel |-> defaultSynthParams.volume.level,
    disposed     |-> {} ]

\* Its updateEffects also moves the filter: 2000 + attack * 2000 Hz, the attack
\* being in seconds.
updateEffects_tsx(voice, p) ==
  [voice EXCEPT
     !.delay  = [delayTime |-> p.delay.delayTime,
                 feedback  |-> p.delay.feedback * wetScale,
                 wet       |-> p.delay.wet * wetScale],
     !.reverb = [decay    |-> p.reverb.decay,
                 preDelay |-> p.reverb.preDelay,
                 wet      |-> p.reverb.wet * wetScale],
     !.filter.frequency = 2000 + 2 * p.envelope.attack]

\* Its handleNoteStart. Every set({envelope}) of this revision is given the
\* envelope that paramsRef.current holds, so the options of the PolySynth carry
\* paramsRef.current.envelope.
handleNoteStart_tsx(note) ==
  IF ~isInitialized THEN UNCHANGED engineVars
  ELSE
    LET s == polyTriggerAttack(Synth(voices, activeVoices, availableVoices), note,
                               NewVoice_tsx(0, [envelope |-> paramsRef.envelope]))
        i == findVoice(s.voices, note)
    IN /\ activeNotes' = [n \in DOMAIN activeNotes \cup {note} |->
                            IF n = note THEN paramsRef ELSE activeNotes[n]]
       /\ voices' = IF i = 0 THEN s.voices
                    ELSE [s.voices EXCEPT ![i] = updateEffects_tsx(@, paramsRef)]
       /\ activeVoices' = s.activeVoices
       /\ availableVoices' = s.availableVoices
       /\ pressedKeys' = pressedKeys \cup {note}
       /\ UNCHANGED timers

\* A key of this revision's keyboard going down.
noteOn_tsx(note) ==
  /\ handleNoteStart_tsx(note)
  /\ held' = [held EXCEPT ![note] = TRUE]
  /\ lastOp' = NoteOp("noteOn", note)
  /\ UNCHANGED <<isInitialized, outerVars, modelVars, edits, uiVars>>

\* Its updateParams: the envelope goes to the PolySynth and the volume to every
\* voice; onParamsChange is not called, so the initialParams prop stays and the
\* effect on it does not run.
updateParams_tsx(category, parameter, value) ==
  LET newParams == [params EXCEPT ![category][parameter] = value]
  IN /\ params' = newParams
     /\ paramsRef' = newParams
     /\ voices' = CASE category = "envelope" -> setEnvelope(voices, newParams.envelope)
                    [] category = "volume" ->
                         [i \in 1..Len(voices) |-> updateVolume(voices[i], value)]
                    [] OTHER -> voices
     /\ lastOp' = Op("updateParams", "-", category, parameter, value)
     /\ UNCHANGED <<isInitialized, outerVars, currentParams, activeVoices, availableVoices,
                    activeNotes, timers, pressedKeys, held, uiVars>>

\* Its effect on [initialParams, isInitialized], applied to the voices vs.
initialParamsEffect_tsx(vs, initialParams) ==
  IF isInitialized
    THEN setEnvelope(
           [i \in 1..Len(vs) |->
              updateVolume(updateEffects_tsx(vs[i], initialParams),
                           initialParams.volume.level)],
           initialParams.envelope)
    ELSE vs

\* handleLoadPreset(preset) of PresetManager.tsx: the envelope, the reverb and
\* the delay are parsed inside one try and the volume is set to -12; the
\* volume text of the record is not read.
\* presetData of its handleSavePreset: envelope, reverb, delay and volume; the
\* record has no other sub-object.
handleSavePreset_tsx(p) ==
  [c \in Categories |->
     IF c \in {"envelope", "reverb", "delay", "volume"} THEN Serialized(p[c])
     ELSE Malformed]

\* params of its handleLoadPreset: three sub-objects parsed and the volume set
\* to -12; what this revision has no category for stays as in current.
loadedParams_tsx(preset, current) ==
  [current EXCEPT !.envelope = JSONparse(preset.envelope),
                  !.reverb = JSONparse(preset.reverb),
                  !.delay = JSONparse(preset.delay),
                  !.volume = [level |-> -12]]

handleLoadPreset_tsx(preset) ==
  /\ IF \A c \in {"envelope", "reverb", "delay"} : Parses(preset[c])
       THEN LET loaded == loadedParams_tsx(preset, currentParams)
            IN /\ currentParams' = loaded
               /\ params' = loaded
               /\ paramsRef' = loaded
               /\ voices' = initialParamsEffect_tsx(voices, loaded)
               /\ error' = "null"
       ELSE /\ error' = "Failed to load preset: Invalid preset data"
            /\ UNCHANGED <<modelVars, voices>>
  /\ lastOp' = PresetOp(preset)
  /\ UNCHANGED <<isInitialized, outerVars, activeVoices, availableVoices, activeNotes,
                 timers, pressedKeys, held, onParamsChangeCalls>>

\* The records its preset list offers: those of four sub-objects.
PresetRecords_tsx ==
  {p \in PresetRecords : \A c \in {"oscillator", "filter", "gainLimiter"} :
                             Parses(p[c])}

loadPreset_tsx ==
  \E p \in PresetRecords_tsx :
    /\ edits < MaxEdits
    /\ edits' = edits + 1
    /\ handleLoadPreset_tsx(p)

\* The edits its Controls offer.
EditInputs_tsx ==
  {e \in EditInputs : e[1] \in {"envelope", "reverb", "delay", "volume"}}

editParams_tsx ==
  \E e \in EditInputs_tsx :
    /\ edits < MaxEdits
    /\ edits' = edits + 1
    /\ updateParams_tsx(e[1], e[2], e[3])

Next_tsx ==
  \/ \E n \in NOTES : noteOn_tsx(n)
  \/ \E n \in NOTES : handleMouseUp(n)
  \/ \E n \in NOTES : cleanupTimer(n)
  \/ \E i \in 1..MaxPolyphony : voiceSilent(i)
  \/ editParams_tsx
  \/ loadPreset_tsx

Spec_tsx == Init /\ [][Next_tsx]_vars

\* -------------------------------------------------------------- properties

\* The entries of _activeVoices for a note: its Sounding and Releasing voices.
EntriesFor(active, note) ==
  {i \in 1..Len(active) : active[i].midi = note}

SoundingFor(active, note) ==
  {i \in EntriesFor(active, note) : ~active[i].released}

VoiceOf(vs, id) == vs[IndexOfId(vs, id)]

\* C1: after any sequence of noteOn and noteOff, every note has at most one
\* Sounding voice: a noteOn for a note that is already Sounding allocates no
\* second voice for it.
C1_AtMostOneSoundingVoicePerNote ==
  \A n \in NOTES : Cardinality(SoundingFor(activeVoices, n)) <= 1

\* C2: a noteOn(n) that immediately follows a noteOff(n), before the deferred
\* cleanup has run, leaves exactly one voice and one bookkeeping record for n.
C2_RetriggerLeavesOneVoice ==
  [][\A n \in NOTES :
       (lastOp = NoteOp("noteOff", n) /\ lastOp' = NoteOp("noteOn", n))
         => /\ Cardinality(EntriesFor(activeVoices', n)) = 1
            /\ n \in DOMAIN activeNotes']_vars

\* C3: an envelope edit made while a note is Sounding changes neither the note's
\* snapshot nor the envelope of its Sounding voice, and a noteOn issued after an
\* envelope edit captures the edited envelope and sounds with it.
C3_EnvelopeEditsReachOnlyFutureNotes ==
  [][/\ (lastOp'.op = "updateParams" /\ lastOp'.category = "envelope")
          => /\ activeNotes' = activeNotes
             /\ \A i \in 1..Len(activeVoices) :
                  ~activeVoices[i].released
                    => VoiceOf(voices', activeVoices[i].voice).envelope
                         = VoiceOf(voices, activeVoices[i].voice).envelope
     /\ \A n \in NOTES :
          (/\ lastOp' = NoteOp("noteOn", n)
           /\ paramsRef.envelope # defaultSynthParams.envelope
           /\ Len(activeVoices') > Len(activeVoices))
            => /\ activeNotes'[n].envelope = paramsRef.envelope
               /\ VoiceOf(voices', activeVoices'[Len(activeVoices')].voice).envelope
                    = paramsRef.envelope]_vars

\* C4: in every reachable state the channel volume of every voice is at most
\* 0 dB, whatever level was requested.
C4_ChannelVolumeAtMostZero ==
  \A i \in 1..Len(voices) : voices[i].voiceChannel <= 0

\* C4 witness: a level of +10 was requested while voices exist, and every voice is
\* at 0 dB.
C4_Witness ==
  /\ Len(voices) > 0
  /\ lastOp = Op("updateParams", "-", "volume", "level", 10)
  /\ params.volume.level = 10
  /\ \A i \in 1..Len(voices) : voices[i].voiceChannel = 0

InDeclaredRange(p) ==
  \A c \in Categories : \A f \in DOMAIN p[c] :
    /\ PARAM_RANGES[c][f].min <= p[c][f]
    /\ p[c][f] <= PARAM_RANGES[c][f].max

\* C5: after any sequence of edits and preset loads, every field of the stored
\* model lies within its declared range, and the stored rolloff is a legal value.
C5_StoredModelInRange ==
  /\ InDeclaredRange(params)
  /\ InDeclaredRange(paramsRef)
  /\ params.filter.rolloff \in {validRolloffs[k] : k \in 1..Len(validRolloffs)}

\* r is the member of validRolloffs nearest to the input v, and of two equally
\* near members the earlier one.
IsNearestRolloff(r, v) ==
  \E k \in 1..Len(validRolloffs) :
    /\ validRolloffs[k] = r
    /\ \A j \in 1..Len(validRolloffs) :
         /\ Abs(r - v) <= Abs(validRolloffs[j] - v)
         /\ j < k => Abs(r - v) < Abs(validRolloffs[j] - v)

\* C6: for every rolloff input, the rolloff applied to the voices' filters is the
\* member of {-12, -24, -48, -96} nearest to the input, the earlier of two equally
\* near members; -30 gives -24, -90 gives -96, -18 gives -12.
C6_AppliedRolloffIsNearest ==
  [][(/\ lastOp'.op = "updateParams"
      /\ lastOp'.category = "filter"
      /\ lastOp'.parameter = "rolloff")
       => \A i \in 1..Len(voices') :
            LET r == voices'[i].filter.rolloff
                v == lastOp'.value
            IN /\ IsNearestRolloff(r, v)
               /\ v = -30 => r = -24
               /\ v = -90 => r = -96
               /\ v = -18 => r = -12]_vars

\* C6 witness: the rolloff -18, as near to -12 as to -24, was edited in while a
\* voice exists, and the voice's filter is at -12.
C6_Witness ==
  /\ lastOp = Op("updateParams", "-", "filter", "rolloff", -18)
  /\ Len(voices) > 0
  /\ \A i \in 1..Len(voices) : voices[i].filter.rolloff = -12

\* n is an integer nearest to the count c10, which is in tenths.
IsNearestInteger(n, c10) == Abs(10 * n - c10) <= 5

HoldsEdited(voice, p, category) ==
  CASE category = "volume" ->
         voice.voiceChannel = IF p.volume.level > 0 THEN 0 ELSE p.volume.level
    [] category = "oscillator" ->
         /\ voice.oscillator.count \in 1..8
         /\ \E n \in -2..14 :
              /\ IsNearestInteger(n, p.oscillator.count)
              /\ voice.oscillator.count = IF n < 1 THEN 1 ELSE IF n > 8 THEN 8 ELSE n
         /\ voice.oscillator.spread =
              IF p.oscillator.spread < 0 THEN 0
              ELSE IF p.oscillator.spread > 50 THEN 50 ELSE p.oscillator.spread
    [] category = "filter" ->
         /\ IsNearestRolloff(voice.filter.rolloff, p.filter.rolloff)
         /\ voice.filter.frequency = normalizedFreq(p.filter.frequency)
    [] category = "gainLimiter" ->
         /\ voice.gain = p.gainLimiter.gain
         /\ voice.limiter = p.gainLimiter.threshold
    [] category = "delay" ->
         /\ voice.delay.delayTime = p.delay.delayTime
         /\ voice.delay.feedback = p.delay.feedback * wetScale
         /\ voice.delay.wet = p.delay.wet * wetScale
    [] category = "reverb" ->
         /\ voice.reverb.decay = p.reverb.decay
         /\ voice.reverb.preDelay = p.reverb.preDelay
         /\ voice.reverb.wet = p.reverb.wet * wetScale
    [] OTHER -> TRUE

\* C8: after an edit in the volume, the oscillator, the filter, the gain and
\* limiter, the delay or the reverb, every existing voice, Sounding or
\* Releasing, holds the edited value in the control of that category.
C8_EditsReachEveryLiveVoice ==
  [][lastOp'.op = "updateParams"
       => \A i \in 1..Len(voices') :
            HoldsEdited(voices'[i], params', lastOp'.category)]_vars

\* C9: after noteOn(n) the voice that sounds n has its controls equal to what the
\* model current at the noteOn prescribes, also when parameters were edited
\* before the voice was created. The cutoff is left out of the comparison: the
\* constructor sets it in Hz and updateFilter through its mapping.
C9_NewVoiceFollowsModel ==
  [][\A n \in NOTES :
       (lastOp' = NoteOp("noteOn", n) /\ Len(activeVoices') > Len(activeVoices))
         => LET v == VoiceOf(voices', activeVoices'[Len(activeVoices')].voice)
            IN /\ \A c \in {"volume", "oscillator", "gainLimiter", "delay", "reverb"} :
                    HoldsEdited(v, paramsRef, c)
               /\ IsNearestRolloff(v.filter.rolloff, paramsRef.filter.rolloff)]_vars

\* C10: whatever the sequence of mouse and touch events on a key, no second
\* noteOn of a note is dispatched while the key is held: between two noteOn of a
\* note there is a noteOff of it.
C10_NoAttackWhileHeld ==
  [][\A n \in NOTES : lastOp' = NoteOp("noteOn", n) => ~held[n]]_vars

\* C11: every noteOff of a note dispatched to the engine is matched by a noteOn
\* of that note not yet released: none is dispatched for a key that was never
\* pressed, and no second one follows a single press.
C11_ReleaseMatchesPress ==
  [][\A n \in NOTES : lastOp' = NoteOp("noteOff", n) => held[n]]_vars

\* C12: loading a preset record of which a serialized sub-object is not validly
\* encoded is reported as a load failure: the error message is set, the load
\* callback is not invoked, and the model and every voice stay as they were.
C12_MalformedPresetLoadsNothing ==
  [][lastOp' = Op("loadPreset", "-", "-", "malformed", 0)
       => /\ error' # "null"
          /\ UNCHANGED <<currentParams, params, paramsRef, voices>>]_vars

\* C13: every live edit, of whatever category, is followed by exactly one call
\* of onParamsChange, with the model that results from the edit.
C13_EveryEditNotifiesOnce ==
  [][lastOp'.op = "updateParams"
       => onParamsChangeCalls' = Append(onParamsChangeCalls, params')]_vars

\* The controls of a voice lie within the ranges PARAM_RANGES declares, in the
\* units of the voice.
ControlsInDeclaredRange(voice) ==
  LET R == PARAM_RANGES
      in(x, r, scale) == r.min * scale <= x /\ x <= r.max * scale
  IN /\ in(voice.voiceChannel, R.volume.level, 1)
     /\ in(voice.oscillator.count * 10, R.oscillator.count, 1)
     /\ in(voice.oscillator.spread, R.oscillator.spread, 1)
     /\ in(voice.filter.frequency, R.filter.frequency, 1)
     /\ in(voice.filter.rolloff, R.filter.rolloff, 1)
     /\ in(voice.gain, R.gainLimiter.gain, 1)
     /\ in(voice.limiter, R.gainLimiter.threshold, 1)
     /\ in(voice.delay.wet, R.delay.wet, 10)
     /\ in(voice.delay.feedback, R.delay.feedback, 10)
     /\ in(voice.delay.delayTime, R.delay.delayTime, 1)
     /\ in(voice.reverb.wet, R.reverb.wet, 10)
     /\ in(voice.reverb.decay, R.reverb.decay, 1)
     /\ in(voice.reverb.preDelay, R.reverb.preDelay, 1)

\* C14: whatever value an update method of a voice is given, the value it
\* applies to the control lies within the declared range of the parameter:
\* values outside the range are clamped, not passed through.
C14_AppliedValuesInDeclaredRange ==
  \A i \in 1..Len(voices) : ControlsInDeclaredRange(voices[i])

\* The state of the voice id: Sounding while an entry of _activeVoices holds it
\* unreleased, Releasing while one holds it released, Idle otherwise; None when
\* no such voice exists.
VoiceState(vs, active, id) ==
  IF id \notin VoiceIds(vs) THEN "None"
  ELSE IF \E i \in 1..Len(active) : active[i].voice = id /\ ~active[i].released
    THEN "Sounding"
  ELSE IF \E i \in 1..Len(active) : active[i].voice = id THEN "Releasing"
  ELSE "Idle"

C17_NoteOnAlwaysSounds ==
  [][\A n \in NOTES :
       (/\ lastOp' = NoteOp("noteOn", n)
        /\ \/ availableVoices # <<>>
           \/ Len(voices) < MaxPolyphony
           \/ \E i \in 1..Len(activeVoices) : activeVoices[i].released)
         => /\ SoundingFor(activeVoices', n) # {}
            /\ Cardinality(SoundingFor(activeVoices', n))
                 > Cardinality(SoundingFor(activeVoices, n))]_vars

\* C18: a live parameter edit reallocates no chain: an updateParams call of any
\* category creates no voice, disposes no voice, and leaves the note of every
\* voice, the voices in use and at rest, and the active-note records as they
\* were; only control values of the voices and the stored model change.
C18_EditsReallocateNothing ==
  [][lastOp'.op = "updateParams"
       => /\ Len(voices') = Len(voices)
          /\ \A i \in 1..Len(voices) :
               /\ voices'[i].id = voices[i].id
               /\ voices'[i].frequency = voices[i].frequency
          /\ UNCHANGED <<activeVoices, availableVoices, activeNotes, timers,
                         pressedKeys>>]_vars

\* An edit made while a voice sounds for a note.
C18_Witness ==
  /\ lastOp.op = "updateParams"
  /\ \E i \in 1..Len(activeVoices) : ~activeVoices[i].released
  /\ \E i \in 1..Len(voices) : voices[i].frequency = "C4"

\* C19: parameter writes are last-value-wins and field-local: an updateParams
\* call that addresses a field of a category leaves that field of the stored
\* model at the value of the call, and every other field of every category as
\* it was; so after a run of calls each field holds the value of the latest
\* call that addressed it.
C19_WritesAreFieldLocal ==
  [][lastOp'.op = "updateParams"
       => /\ params'[lastOp'.category][lastOp'.parameter] = lastOp'.value
          /\ \A c \in Categories : \A f \in DOMAIN params[c] :
               (c # lastOp'.category \/ f # lastOp'.parameter)
                 => params'[c][f] = params[c][f]
          /\ \A c \in Categories : DOMAIN params'[c] = DOMAIN params[c]
          /\ paramsRef' = params']_vars

\* A second write to a field already written, after a write to another field.
C19_Witness ==
  /\ lastOp = Op("updateParams", "-", "volume", "level", -3)
  /\ Len(onParamsChangeCalls) = 2
  /\ onParamsChangeCalls[1].volume.level = -20
  /\ params.volume.level = -3

\* C20: updateEffects applies 0.7 times the wet and the feedback of the model
\* it is given, and the delay time, the decay and the pre-delay as given; a
\* voice is built with the same 0.7; so the delay wet and the reverb wet of a
\* voice never exceed 0.7 times the wet values of the model.
C20_WetAtMostScaledModel ==
  \A i \in 1..Len(voices) :
    /\ voices[i].delay.wet <= wetScale * paramsRef.delay.wet
    /\ voices[i].reverb.wet <= wetScale * paramsRef.reverb.wet

C22_PressedKeysFollowKeyEvents ==
  [][\A n \in NOTES :
       /\ (isInitialized /\ lastOp' = NoteOp("noteOn", n))
            => /\ n \in pressedKeys'
               /\ pressedKeys' \ {n} = pressedKeys \ {n}
       /\ (isInitialized /\ lastOp' = NoteOp("noteOff", n))
            => /\ n \notin pressedKeys'
               /\ pressedKeys' \ {n} = pressedKeys \ {n}]_vars

\* A key has been released while its voice is in its release tail and its
\* record is still kept, beside a key that stays pressed.
C22_Witness ==
  /\ lastOp = NoteOp("noteOff", "C4")
  /\ pressedKeys = {"D4"}
  /\ "C4" \in DOMAIN activeNotes
  /\ \E i \in 1..Len(activeVoices) :
       activeVoices[i].midi = "C4" /\ activeVoices[i].released

ApiCalls == {"getPresets", "createPreset", "deletePreset"}

C24_RefusalCarries429 ==
  [][/\ (/\ lastOp'.op \in ApiCalls
         /\ requestsThisMinute = 60
         /\ now - lastMinuteReset < 60000)
          => /\ apiResult'.error.name = "ApiError"
             /\ apiResult'.error.statusCode = 429
             /\ apiResult'.error.message
                  = "Rate limit exceeded. Please try again later."
     /\ (/\ lastOp'.op = "createPreset"
         /\ requestsThisMinute < 60
         /\ now - lastCreateTime < 2000)
          => /\ apiResult'.error.name = "ApiError"
             /\ apiResult'.error.statusCode = 429
             /\ apiResult'.error.message
                  = "Please wait before creating another preset"]_vars

StoredIds == {SynthPresets[i].Id : i \in 1..Len(SynthPresets)}

\* C25: a stored preset is deleted only by a delete request that carries the
\* deletion password its create request held: a delete of a stored preset
\* with another password, or with none, does not succeed and leaves the
\* stored presets as they were.
C25_DeleteNeedsThePassword ==
  [][(/\ lastOp'.op = "deletePreset"
      /\ lastOp'.value \in StoredIds
      /\ lastOp'.parameter # createdWith[lastOp'.value])
       => /\ SynthPresets' = SynthPresets
          /\ apiResult'.error # NoError]_vars

\* C26: while a key is held after its noteOn (pressed and not yet released),
\* the active-note record of its note exists: the cleanup that an earlier
\* noteOff of the note deferred never deletes the record a later noteOn wrote,
\* however key events and timers interleave.
C26_HeldNoteKeepsItsRecord ==
  \A n \in NOTES : (isInitialized /\ held[n]) => n \in DOMAIN activeNotes

\* The controls that updateEffects is to leave alone are the same in v and w.
SameOutsideEffects(v, w) ==
  /\ w.filter = v.filter
  /\ w.gain = v.gain
  /\ w.limiter = v.limiter
  /\ w.oscillator = v.oscillator
  /\ w.voiceChannel = v.voiceChannel

\* C27: updateEffects(model) changes only the delay and the reverb of the
\* voice: the filter cutoff and rolloff, the gain, the limiter threshold, the
\* oscillator settings and the channel volume are after the call what they
\* were before it, for every model, in both revisions of the voice.
C27_UpdateEffectsLeavesTheRest ==
  \A i \in 1..Len(voices) :
    /\ SameOutsideEffects(voices[i], updateEffects(voices[i], paramsRef))
    /\ SameOutsideEffects(voices[i], updateEffects_tsx(voices[i], paramsRef))

\* C28: the resonance Q of a voice's lowpass filter is fixed: in every state a
\* voice reaches, through any updateFilter calls, it has the value the
\* constructor gave it.
C28_FilterQIsFixed ==
  \A i \in 1..Len(voices) : voices[i].filter.Q = NewVoice(0).filter.Q

CachedIds(data) == {data[i].id : i \in 1..Len(data)}

\* The optimistic change of the mutation m shows in the list data.
ShowsChangeOf(data, m) ==
  IF m.kind = "create" THEN m.id \in CachedIds(data)
  ELSE m.id \notin CachedIds(data)

\* C29: optimistic updates roll back cleanly: when a create or a delete fails,
\* the cached list afterwards shows nothing of that mutation's optimistic
\* change (the temporary preset is gone, the preset taken out is back) and
\* still shows the optimistic changes of the mutations in flight, however the
\* mutations interleave; and once every mutation has settled and the refetch
\* has completed, the cached list is the server's list.
C29_RollbackKeepsOtherChanges ==
  /\ []((mutations = <<>> /\ refetch.status = "success")
          => cache = ToPresets(SynthPresets))
  /\ [][(lastOp'.op = "settle" /\ lastOp'.parameter = "rejected")
          => /\ lastOp'.category = "create"
                  => lastOp'.value \notin CachedIds(cache')
             /\ \A k \in 1..Len(mutations) :
                  (/\ mutations[k].kind = "delete"
                   /\ mutations[k].id = lastOp'.value
                   /\ lastOp'.category = "delete"
                   /\ Len(mutations') < Len(mutations)
                   /\ mutations[k].id \in CachedIds(mutations[k].previousPresets))
                    => mutations[k].id \in CachedIds(cache')
             /\ \A k \in 1..Len(mutations') :
                  ShowsChangeOf(cache', mutations'[k])]_vars

\* C30: saving the current model as a preset record and loading that record
\* yields the saved model in every category (envelope, reverb, delay, volume,
\* oscillator, filter, gainLimiter), for every model whose fields are within
\* their declared ranges, in both revisions of the PresetManager.
C30_SaveThenLoadIsTheModel ==
  InDeclaredRange(currentParams)
    => /\ loadedParams(handleSavePreset(currentParams)) = currentParams
       /\ loadedParams_tsx(handleSavePreset_tsx(currentParams), currentParams)
            = currentParams

====
